---- MODULE Spec2Model ----
(***************************************************************************)
(* A model of src/module.ts: the Module base class of the Modular package. *)
(*                                                                         *)
(* State: the shared instance list (`modules`), the state that subclass    *)
(* methods keep on their instances, the frames of the call/callById        *)
(* operations in progress (they invoke subclass methods synchronously, and *)
(* those may call back), and the attributes of the document tree that      *)
(* q/parent/getData/setData read and write.                                *)
(*                                                                         *)
(* Three specifications share the definitions below:                       *)
(*   Spec           call/callById over every instance list, the invoked    *)
(*                  methods returning without calling back;                *)
(*   SpecReentrant  call/callById with methods that call back into         *)
(*                  call/callById before they return;                      *)
(*   SpecDom        q, parent, getData, setData and the lifecycle hooks    *)
(*                  over a document tree.                                  *)
(***************************************************************************)
EXTENDS Integers, Sequences, FiniteSets, TLC

VARIABLES
    modules,   \* this.modules: the instance list every instance shares
    state,     \* per instance: what a method last stored through its `this`
    stack,     \* the call/callById operations in progress, outermost first
    req,       \* the latest operation issued from outside (not by a method)
    done,      \* the latest operation that returned or raised
    attrs,     \* per node of the tree: attribute name -> value
    written,   \* per node and data name: the value last put by setData
    ret        \* the latest result of q/parent/getData/setData or a hook

vars == <<modules, state, stack, req, done, attrs, written, ret>>

callVars == <<modules, state, stack, req, done>>
domVars == <<attrs, written, ret>>

(***************************************************************************)
(* Bounds of the model.                                                    *)
(***************************************************************************)
\* Length of the instance list.
MaxModules == 3
\* call/callById operations in progress at once (1 outer + nested ones).
MaxDepth == 2

(***************************************************************************)
(* Values.                                                                 *)
(***************************************************************************)
\* null / undefined, for string-valued results and attribute values.
NULL == "null"
\* null / undefined, for an element (HTMLElement | null) or a node.
NoNode == -1

TypeKeys == {"a", "b"}
\* Type keys a caller may ask for: the last is carried by no instance.
CallKeys == TypeKeys \cup {"missing"}
MethodNames == {"open", "close"}
\* Identities a caller may ask for: the last is carried by no instance.
CallIds == {0, 1, 42}
\* Argument lists (...args) of call/callById issued from outside.
ArgLists == {<<1, 2>>}
\* The argument list of a call/callById issued by a method.
NestedArgs == <<2, 1>>

(***************************************************************************)
(* What a member `module[methodName]` of an instance can be:               *)
(*   "fn"        an ordinary function: its `this` is the one apply gives   *)
(*   "bound"     a function whose `this` is fixed to its own instance (a   *)
(*               bound function, as bind() is documented to make them, or  *)
(*               an arrow function): apply cannot rebind it                *)
(*   "data"      a truthy value that is no function                        *)
(*   "zero"      a falsy value (0, "", null)                               *)
(*   "undefined" no such member                                            *)
(***************************************************************************)
MemberKinds == {"fn", "bound", "data", "zero", "undefined"}

\* The classes the instances are made from: a type key and its members.
Templates ==
    { [name |-> "a", members |-> [open |-> "fn", close |-> "data"]],
      [name |-> "a", members |-> [open |-> "bound", close |-> "zero"]],
      [name |-> "a", members |-> [open |-> "undefined", close |-> "fn"]],
      [name |-> "b", members |-> [open |-> "fn", close |-> "bound"]] }

\* Identities as the orchestrator hands them out here: 0, 1, 0, ... so that
\* identity 1 is unique (for up to three instances) and identity 0 is shared.
IdOf(i) == (i - 1) % 2

\* The element an instance owns: the first owns node 2, the second none.
ElementOf(i) == IF i = 1 THEN 2 ELSE IF i = 2 THEN NoNode ELSE 3

\* constructor({ ID, name, element, modules }): the fields stored verbatim.
NewModule(i, t) ==
    [ID |-> IdOf(i), name |-> t.name, element |-> ElementOf(i),
     members |-> t.members]

ModuleLists ==
    { [i \in 1..MaxModules |-> NewModule(i, f[i])] :
        f \in [1..MaxModules -> Templates] }

Unset == [set |-> FALSE, last |-> << >>]


(***************************************************************************)
(* The helpers of call and callById.                                       *)
(***************************************************************************)
\* module[methodName]
Member(module, methodName) == module.members[methodName]

\* utils/is_function: true exactly when the value is callable.
isFunction(value) == value \in {"fn", "bound"}

\* Whether a member passes the test `moduleMethod && ...`.
Truthy(value) == value \notin {"zero", "undefined"}

\* A plausible slip: moduleMethod.apply(module, ...), the target as context.
Apply_TargetContext(kind, thisArg, target, spread) ==
    [target |-> target,
     ctx |-> target,
     recv |-> IF Len(spread) >= 1 THEN spread[1] ELSE << >>]

\* moduleMethod.apply(thisArg, ...spread): the first value after thisArg is
\* the argument array; the method receives its elements in order. A bound
\* (or arrow) function keeps its own context whatever thisArg is.
Apply(kind, thisArg, target, spread) ==
    [target |-> target,
     ctx |-> IF kind = "bound" THEN target ELSE thisArg,
     recv |-> IF Len(spread) >= 1 THEN spread[1] ELSE << >>]

\* A plausible slip: the member is invoked without the isFunction test.
callMethod_Unchecked(self, t, methodName, rest) ==
    LET moduleMethod == modules[t].members[methodName]
    IN  IF moduleMethod \notin {"zero", "undefined"}
        THEN <<[target |-> t, ctx |-> self,
                recv |-> IF Len(rest) >= 1 THEN rest[1] ELSE << >>]>>
        ELSE << >>

\* #callMethod(module, methodName, ...args) run by instance `self` on the
\* instance at index t; `rest` is the rest parameter. The invocation it
\* makes, as a list of zero or one element.
callMethod(self, t, methodName, rest) ==
    LET moduleMethod == Member(modules[t], methodName)
    IN  IF Truthy(moduleMethod) /\ isFunction(moduleMethod)
        THEN <<Apply(moduleMethod, self, t, rest)>>
        ELSE << >>

\* What an invoked method does: it stores the arguments it received on the
\* instance that is its `this`.
RunMethod(st, inv) == [st EXCEPT ![inv.ctx] = [set |-> TRUE, last |-> inv.recv]]

\* A plausible slip: the list is not filtered by type key.
moduleInstances_Unfiltered(moduleName) == [i \in 1..Len(modules) |-> i]

\* this.modules.filter((module) => module.name === moduleName): the
\* instances are named by their index in the list, the order kept.
moduleInstances(moduleName) ==
    SelectSeq([i \in 1..Len(modules) |-> i],
              LAMBDA i : modules[i].name = moduleName)

\* A plausible slip: the last instance of that identity, not the first.
FindById_Last(id) ==
    LET S == {i \in 1..Len(modules) : modules[i].ID = id}
    IN  IF S = {} THEN 0 ELSE CHOOSE i \in S : \A j \in S : i >= j

\* this.modules.find((m) => m.ID === id): the first index, or 0.
FindById(id) ==
    LET S == {i \in 1..Len(modules) : modules[i].ID = id}
    IN  IF S = {} THEN 0 ELSE CHOOSE i \in S : \A j \in S : i <= j

NoError == [kind |-> "none", key |-> "", id |-> NoNode]

\* new ModularModuleNotFoundException(moduleName) and
\* new ModularModuleIdNotFoundException(id): each carries what it is given.
ModuleNotFound(moduleName) == [kind |-> "ModuleNotFound", key |-> moduleName, id |-> NoNode]
ModuleIdNotFound(id) == [kind |-> "ModuleIdNotFound", key |-> "", id |-> id]

(***************************************************************************)
(* An operation in progress. `targets` is what filter/find returned when   *)
(* it started, `pos` the target forEach is at, `invoked` the invocations   *)
(* the operation itself has made, `catch` whether the method that issued   *)
(* it handles an error it raises, `nested` whether a method it invoked     *)
(* has issued an operation of its own.                                     *)
(***************************************************************************)
CallFrame(self, moduleName, methodName, args, catch) ==
    [op |-> "call", caller |-> self, key |-> moduleName, id |-> NoNode,
     method |-> methodName, args |-> args,
     targets |-> moduleInstances(moduleName),
     pos |-> 1, invoked |-> << >>, catch |-> catch, nested |-> FALSE]

CallByIdFrame(self, id, methodName, args, catch) ==
    [op |-> "callById", caller |-> self, key |-> "", id |-> id,
     method |-> methodName, args |-> args,
     targets |-> IF FindById(id) # 0 THEN <<FindById(id)>> ELSE << >>,
     pos |-> 1, invoked |-> << >>, catch |-> catch, nested |-> FALSE]

\* The lookup-miss error of an operation that found no target.
ErrorOf(f) == IF f.op = "call" THEN ModuleNotFound(f.key) ELSE ModuleIdNotFound(f.id)

\* The record kept of an operation that ended, by returning (NoError) or by
\* raising `err`; depth 1 is an operation issued from outside.
Finished(f, err, depth) ==
    [op |-> f.op, caller |-> f.caller, key |-> f.key, id |-> f.id,
     method |-> f.method, args |-> f.args, targets |-> f.targets,
     pos |-> f.pos, invoked |-> f.invoked, nested |-> f.nested,
     depth |-> depth, error |-> err]

NoFrame == CallFrame(1, "missing", "open", << >>, FALSE)
NoDone == [Finished(NoFrame, NoError, 0) EXCEPT !.op = "none"]
NoReq == [op |-> "none", caller |-> 1, key |-> "", id |-> NoNode,
          method |-> "open", args |-> << >>]

Front(s) == SubSeq(s, 1, Len(s) - 1)
Top(s) == s[Len(s)]

\* The method the top operation is running returns: forEach moves on.
Advance(stk) == [stk EXCEPT ![Len(stk)].pos = @ + 1]

\* Operation f ends by raising err; stk holds the operations below it. Its
\* issuer is outside (stk empty), or the method the top of stk is running:
\* that method handles the error and returns (f.catch), or is ended by it,
\* and then so is the operation that invoked it: no frame of call,
\* callById or #callMethod catches anything.
RECURSIVE Unwind(_, _, _)
Unwind(stk, f, err) ==
    IF stk = << >>
    THEN [stack |-> << >>, done |-> Finished(f, err, 1)]
    ELSE IF f.catch
    THEN [stack |-> Advance(stk), done |-> Finished(f, err, Len(stk) + 1)]
    ELSE Unwind(Front(stk), Top(stk), err)

\* A plausible slip: the else branch is missing, a lookup miss returns.
Issue_Silent(stk, f, d) ==
    IF Len(f.targets) > 0
    THEN [stack |-> Append(stk, f), done |-> d]
    ELSE [stack |-> stk, done |-> Finished(f, NoError, Len(stk) + 1)]

\* Operation f is issued while stk is in progress: a lookup miss raises at
\* once, anything else starts iterating its targets. d is the record of
\* the latest ended operation.
Issue(stk, f, d) ==
    IF Len(f.targets) > 0
    THEN [stack |-> Append(stk, f), done |-> d]
    ELSE Unwind(stk, f, ErrorOf(f))


(***************************************************************************)
(* call and callById, and the steps of an operation in progress.           *)
(***************************************************************************)
\* call(moduleName, methodName, ...args) issued from outside on instance
\* `self`. With no matching instance it raises at once; otherwise forEach
\* starts on the filtered list.
Call(self, moduleName, methodName, args) ==
    /\ stack = << >>
    /\ LET r == Issue(<< >>, CallFrame(self, moduleName, methodName, args, FALSE), NoDone)
       IN  stack' = r.stack /\ done' = r.done
    /\ req' = [op |-> "call", caller |-> self, key |-> moduleName, id |-> NoNode,
               method |-> methodName, args |-> args]
    /\ UNCHANGED <<modules, state, attrs, written, ret>>

\* callById(id, methodName, ...args) issued from outside on instance `self`.
CallById(self, id, methodName, args) ==
    /\ stack = << >>
    /\ LET r == Issue(<< >>, CallByIdFrame(self, id, methodName, args, FALSE), NoDone)
       IN  stack' = r.stack /\ done' = r.done
    /\ req' = [op |-> "callById", caller |-> self, key |-> "", id |-> id,
               method |-> methodName, args |-> args]
    /\ UNCHANGED <<modules, state, attrs, written, ret>>

\* The top operation runs this.#callMethod(moduleInstance, methodName, args)
\* on its next target: args is passed as one value, so the rest parameter
\* holds it alone. The invoked method, if any, runs and returns.
Invoke ==
    /\ stack # << >>
    /\ Top(stack).pos <= Len(Top(stack).targets)
    /\ LET f == Top(stack)
           r == callMethod(f.caller, f.targets[f.pos], f.method, <<f.args>>)
       IN  IF r = << >>
           THEN /\ stack' = Advance(stack)
                /\ state' = state
           ELSE /\ stack' = Advance([stack EXCEPT ![Len(stack)].invoked = Append(@, r[1])])
                /\ state' = RunMethod(state, r[1])
    /\ UNCHANGED <<modules, req, done, attrs, written, ret>>

\* A plausible slip: the position in the list is kept in a field that the
\* nested operation shares and resets.
InvokeAndIssue_SharedCursor(g) ==
    /\ stack # << >>
    /\ Len(stack) < MaxDepth
    /\ Top(stack).pos <= Len(Top(stack).targets)
    /\ LET f == Top(stack)
           r == callMethod(f.caller, f.targets[f.pos], f.method, <<f.args>>)
       IN  /\ r # << >>
           /\ LET stk == [stack EXCEPT ![Len(stack)].invoked = Append(@, r[1]),
                                       ![Len(stack)].nested = TRUE,
                                       ![Len(stack)].pos = 1]
                  res == Issue(stk, [g EXCEPT !.caller = r[1].ctx], done)
              IN  stack' = res.stack /\ done' = res.done
           /\ state' = RunMethod(state, r[1])
    /\ UNCHANGED <<modules, req, attrs, written, ret>>

\* As Invoke, but the invoked method issues an operation of its own before
\* it returns: operation g, issued on the method's own `this`
\* (this.call(...), this.callById(...)). The method stays in progress under
\* the nested operation, or is ended or resumed at once when it raises.
InvokeAndIssue(g) ==
    /\ stack # << >>
    /\ Len(stack) < MaxDepth
    /\ Top(stack).pos <= Len(Top(stack).targets)
    /\ LET f == Top(stack)
           r == callMethod(f.caller, f.targets[f.pos], f.method, <<f.args>>)
       IN  /\ r # << >>
           /\ LET stk == [stack EXCEPT ![Len(stack)].invoked = Append(@, r[1]),
                                       ![Len(stack)].nested = TRUE]
                  res == Issue(stk, [g EXCEPT !.caller = r[1].ctx], done)
              IN  stack' = res.stack /\ done' = res.done
           /\ state' = RunMethod(state, r[1])
    /\ UNCHANGED <<modules, req, attrs, written, ret>>

\* The invoked method calls this.call(moduleName, methodName, ...NestedArgs).
InvokeAndCall(moduleName, methodName, catch) ==
    InvokeAndIssue(CallFrame(1, moduleName, methodName, NestedArgs, catch))

\* The invoked method calls this.callById(id, methodName, ...NestedArgs).
InvokeAndCallById(id, methodName, catch) ==
    InvokeAndIssue(CallByIdFrame(1, id, methodName, NestedArgs, catch))

\* forEach is through (or the single callById target is done): the
\* operation returns, and the method that issued it, if any, goes on to
\* return as well.
Return ==
    /\ stack # << >>
    /\ Top(stack).pos > Len(Top(stack).targets)
    /\ done' = Finished(Top(stack), NoError, Len(stack))
    /\ stack' = IF Len(stack) = 1 THEN << >> ELSE Advance(Front(stack))
    /\ UNCHANGED <<modules, state, req, attrs, written, ret>>

(***************************************************************************)
(* The document tree. Node 0 is the global `document`; node 6 is a node    *)
(* that is neither an element nor `document` (a DocumentFragment or a      *)
(* shadow root), the root of a tree of its own; node 8 is the root of a    *)
(* detached tree of elements. The nodes are numbered in tree order.        *)
(***************************************************************************)
Document == 0
Nodes == 0..9
TreeParent == <<Document, 1, 2, 3, 2, NoNode, 6, NoNode, 8>>
NodeKind(n) == IF n = Document THEN "document" ELSE IF n = 6 THEN "fragment" ELSE "element"
Elements == {n \in Nodes : NodeKind(n) = "element"}

\* node.parentNode
parentNode(n) == IF n = Document THEN NoNode ELSE TreeParent[n]

\* The children of a node, in tree order.
childNodes(n) ==
    SelectSeq([i \in 1..Len(TreeParent) |-> i], LAMBDA c : TreeParent[c] = n)

\* The descendants of a node in tree order (preorder, depth first).
RECURSIVE DescendantsOfAll(_)
DescendantsOfAll(cs) ==
    IF cs = << >> THEN << >>
    ELSE <<Head(cs)>> \o DescendantsOfAll(childNodes(Head(cs))) \o DescendantsOfAll(Tail(cs))

Descendants(n) == DescendantsOfAll(childNodes(n))

DataNames == {"a", "x"}
Values == {"item", "on"}
\* `data-${name}`
DataAttr(name) == "data-" \o name
AttrNames == {DataAttr(n) : n \in TypeKeys \cup DataNames}

NoAttrs == [a \in AttrNames |-> NULL]
\* The markup the tree starts with: named-slot markers of type key "a".
InitAttrs ==
    [n \in Nodes |->
        IF n \in {1, 3, 5, 8} THEN [NoAttrs EXCEPT !["data-a"] = "item"]
        ELSE IF n = 2 THEN [NoAttrs EXCEPT !["data-a"] = "on"]
        ELSE NoAttrs]

\* A selector [attr] (value NULL) or [attr="value"].
AttrSelector(attr, value) == [attr |-> attr, value |-> value]

\* element.matches(selector)
matches(n, sel) ==
    /\ attrs[n][sel.attr] # NULL
    /\ sel.value = NULL \/ attrs[n][sel.attr] = sel.value

\* element.querySelectorAll(selector): the matching descendants, tree order.
querySelectorAll(root, sel) ==
    SelectSeq(Descendants(root), LAMBDA n : NodeKind(n) = "element" /\ matches(n, sel))

\* utils/generate_custom_query: the elements of the module's type key,
\* narrowed by the selector fragment when one is given.
generateCustomQuery(name, selectors) == AttrSelector(DataAttr(name), selectors)

\* utils/is_object: true exactly for a non-null structured value; a context
\* is an element or undefined.
isObject(value) == value # NoNode


(***************************************************************************)
(* q, parent, getData, setData and the lifecycle hooks.                    *)
(***************************************************************************)
Absent == [kind |-> "null", elem |-> NoNode, list |-> << >>, raised |-> "none"]
One(n) == [Absent EXCEPT !.kind = "element", !.elem = n]
Many(ns) == [Absent EXCEPT !.kind = "list", !.list = ns]
Raised(e) == [Absent EXCEPT !.raised = e]

\* A plausible slip: a single match is returned as a one-element list.
q_AlwaysList(self, selectors, context) ==
    LET element == IF isObject(context) THEN context ELSE modules[self].element
    IN  IF element = NoNode
        THEN Absent
        ELSE LET elements ==
                     querySelectorAll(element,
                                      generateCustomQuery(modules[self].name, selectors))
             IN  IF Len(elements) # 0 THEN Many(elements) ELSE Absent

\* q(selectors, context) on instance `self`: null, one element, or a list.
q(self, selectors, context) ==
    LET element == IF isObject(context) THEN context ELSE modules[self].element
    IN  IF element = NoNode
        THEN Absent
        ELSE LET elements ==
                     querySelectorAll(element,
                                      generateCustomQuery(modules[self].name, selectors))
             IN  IF Len(elements) # 0
                 THEN IF Len(elements) = 1 THEN One(elements[1]) ELSE Many(elements)
                 ELSE Absent

\* The loop of parent(): `p` is the node it is at. A node that is neither
\* null nor `document` is taken to be an element (`parent as T`); one that
\* is not has no `matches`, and calling it raises a TypeError.
RECURSIVE parentLoop(_, _)
parentLoop(p, data) ==
    IF p # NoNode /\ p # Document
    THEN IF NodeKind(p) # "element"
         THEN Raised("TypeError")
         ELSE IF matches(p, data) THEN One(p) ELSE parentLoop(parentNode(p), data)
    ELSE Absent

\* parent(query, target) on instance `self`.
parent(self, query, target) ==
    parentLoop(parentNode(target), AttrSelector(DataAttr(modules[self].name), query))

\* target || this.element
TargetOrOwn(self, target) == IF target # NoNode THEN target ELSE modules[self].element

\* getData(qualifiedName, target) on instance `self`: the value or NULL.
getData(self, qualifiedName, target) ==
    LET element == TargetOrOwn(self, target)
    IN  IF element # NoNode THEN attrs[element][DataAttr(qualifiedName)] ELSE NULL

\* A plausible slip: the target is ignored, the own element written.
setData_OwnElement(self, qualifiedName, value, target) ==
    LET element == modules[self].element
    IN  IF element # NoNode
        THEN [attrs EXCEPT ![element][DataAttr(qualifiedName)] = value]
        ELSE attrs

\* setData(qualifiedName, value, target) on instance `self`: the attributes
\* of the tree after it.
setData(self, qualifiedName, value, target) ==
    LET element == TargetOrOwn(self, target)
    IN  IF element # NoNode
        THEN [attrs EXCEPT ![element][DataAttr(qualifiedName)] = value]
        ELSE attrs

NoRet == [op |-> "none", self |-> 1, name |-> "", value |-> NULL, node |-> NoNode,
          res |-> Absent, str |-> NULL]

Selves == 1..Len(modules)
\* Selector fragments given to q: none, or a slot label.
Selectors == {NULL} \cup Values
\* Contexts given to q: none, or an element.
Contexts == {NoNode, 1, 3}
\* Targets given to getData and setData: none, or an element.
DataTargets == {NoNode, 4}

Q(self, selectors, context) ==
    /\ ret' = [NoRet EXCEPT !.op = "q", !.self = self, !.value = selectors,
                            !.node = context, !.res = q(self, selectors, context)]
    /\ UNCHANGED <<modules, state, stack, req, done, attrs, written>>

Parent(self, query, target) ==
    /\ ret' = [NoRet EXCEPT !.op = "parent", !.self = self, !.value = query,
                            !.node = target, !.res = parent(self, query, target)]
    /\ UNCHANGED <<modules, state, stack, req, done, attrs, written>>

GetData(self, qualifiedName, target) ==
    /\ ret' = [NoRet EXCEPT !.op = "getData", !.self = self, !.name = qualifiedName,
                            !.node = target, !.str = getData(self, qualifiedName, target)]
    /\ UNCHANGED <<modules, state, stack, req, done, attrs, written>>

SetData(self, qualifiedName, value, target) ==
    /\ attrs' = setData(self, qualifiedName, value, target)
    /\ written' = LET e == IF target # NoNode THEN target ELSE modules[self].element
                  IN  IF e # NoNode THEN [written EXCEPT ![e][qualifiedName] = value]
                      ELSE written
    /\ ret' = [NoRet EXCEPT !.op = "setData", !.self = self, !.name = qualifiedName,
                            !.value = value, !.node = target]
    /\ UNCHANGED <<modules, state, stack, req, done>>

\* init(), destroy(), bind(): empty in the base class.
init(self) ==
    /\ ret' = [NoRet EXCEPT !.op = "init", !.self = self]
    /\ UNCHANGED <<modules, state, stack, req, done, attrs, written>>

destroy(self) ==
    /\ ret' = [NoRet EXCEPT !.op = "destroy", !.self = self]
    /\ UNCHANGED <<modules, state, stack, req, done, attrs, written>>

bind(self) ==
    /\ ret' = [NoRet EXCEPT !.op = "bind", !.self = self]
    /\ UNCHANGED <<modules, state, stack, req, done, attrs, written>>

(***************************************************************************)
(* The specifications.                                                     *)
(***************************************************************************)
InitRest ==
    /\ state = [i \in 1..MaxModules |-> Unset]
    /\ stack = << >>
    /\ req = NoReq
    /\ done = NoDone
    /\ attrs = InitAttrs
    /\ written = [n \in Nodes |-> [d \in DataNames |-> InitAttrs[n][DataAttr(d)]]]
    /\ ret = NoRet

\* Any list of MaxModules instances of the four classes.
Init == modules \in ModuleLists /\ InitRest

Next ==
    \/ \E self \in Selves, moduleName \in CallKeys, methodName \in MethodNames,
          args \in ArgLists : Call(self, moduleName, methodName, args)
    \/ \E self \in Selves, id \in CallIds, methodName \in MethodNames,
          args \in ArgLists : CallById(self, id, methodName, args)
    \/ Invoke
    \/ Return

Spec == Init /\ [][Next]_vars

\* Lists for the re-entrant runs: instances whose `open` is a function.
ReentrantTemplates ==
    { t \in Templates : t.members["open"] = "fn" }

ReentrantLists ==
    { [i \in 1..MaxModules |-> NewModule(i, f[i])] :
        f \in [1..MaxModules -> ReentrantTemplates] }

InitReentrant == modules \in ReentrantLists /\ InitRest

\* What a method asks for when it calls back: a type key or an identity
\* that some instance may carry, and one that none carries.
NestedKeys == {"a", "missing"}
NestedIds == {0, 42}

\* The instances that issue the outer operation: the first and the last.
OuterCallers == {1, Len(modules)}

NextReentrant ==
    \/ \E self \in OuterCallers, moduleName \in TypeKeys :
          Call(self, moduleName, "open", <<1, 2>>)
    \/ \E self \in OuterCallers, id \in {0, 1} :
          CallById(self, id, "open", <<1, 2>>)
    \/ \E moduleName \in NestedKeys, catch \in BOOLEAN :
          InvokeAndCall(moduleName, "open", catch)
    \/ \E id \in NestedIds, catch \in BOOLEAN :
          InvokeAndCallById(id, "open", catch)
    \/ Invoke
    \/ Return

SpecReentrant == InitReentrant /\ [][NextReentrant]_vars

\* One instance of type "a" on element 2, one of type "b" with no element,
\* and the rest of type "a" on element 3.
DomModules ==
    [i \in 1..MaxModules |->
        NewModule(i, [name |-> IF i = 2 THEN "b" ELSE "a",
                      members |-> [open |-> "fn", close |-> "undefined"]])]

InitDom == modules = DomModules /\ InitRest

NextDom ==
    \/ \E self \in Selves, selectors \in Selectors, context \in Contexts :
          Q(self, selectors, context)
    \/ \E self \in Selves, query \in Values, target \in Elements :
          Parent(self, query, target)
    \/ \E self \in Selves, name \in DataNames, target \in DataTargets :
          GetData(self, name, target)
    \/ \E self \in Selves, name \in DataNames, value \in Values, target \in DataTargets :
          SetData(self, name, value, target)
    \/ \E self \in Selves : init(self)
    \/ \E self \in Selves : destroy(self)
    \/ \E self \in Selves : bind(self)

SpecDom == InitDom /\ [][NextDom]_vars


(***************************************************************************)
(* What the properties are stated with. Nothing here uses the operators    *)
(* that model the code.                                                    *)
(***************************************************************************)
\* The instances whose type key is k, and those whose identity is id.
Named(k) == {i \in 1..Len(modules) : modules[i].name = k}
WithId(id) == {i \in 1..Len(modules) : modules[i].ID = id}
Least(S) == CHOOSE i \in S : \A j \in S : i <= j

\* Whether instance i exposes a callable member m.
Callable(i, m) == modules[i].members[m] \in {"fn", "bound"}

\* The instances a list of invocations was made on, in the order made.
InvokedOn(invoked) == [k \in 1..Len(invoked) |-> invoked[k].target]

\* A list of instances in list order, none twice.
InListOrder(ts) == \A j, k \in 1..Len(ts) : j < k => ts[j] < ts[k]

Range(ts) == {ts[k] : k \in 1..Len(ts)}

\* The operations whose invocations are on record: those in progress and
\* the latest that ended.
Operations == Range(stack) \cup (IF done.op = "none" THEN {} ELSE {done})

\* C1: a call(k, m, args) on a list with at least one entry of type key k
\* returns normally having invoked m once on every entry whose type key is k
\* and that exposes a callable m, in list order, each invocation receiving
\* exactly args; and no call, ended or in progress, has invoked an entry
\* whose type key differs from k. (The invoked methods return normally
\* under this specification.)
C1_CallInvokesMatchingInOrder ==
    /\ \A o \in Operations :
          o.op = "call" => \A k \in 1..Len(o.invoked) :
                               /\ o.invoked[k].target \in Named(o.key)
                               /\ o.invoked[k].recv = o.args
    /\ (done.op = "call" /\ Named(done.key) # {}) =>
          /\ done.error = NoError
          /\ InListOrder(InvokedOn(done.invoked))
          /\ Range(InvokedOn(done.invoked)) =
                 {i \in Named(done.key) : Callable(i, done.method)}

\* A call that invoked two entries of a list that also holds an entry of
\* another type key.
C1_Witness ==
    /\ done.op = "call"
    /\ Len(done.invoked) >= 2
    /\ done.args = <<1, 2>>
    /\ Named(done.key) # 1..Len(modules)

\* A request that finds nothing: no entry of its type key or identity.
Misses(r) ==
    \/ r.op = "call" /\ Named(r.key) = {}
    \/ r.op = "callById" /\ WithId(r.id) = {}

\* C2: a call(k, m, args) on a list with no entry of type key k raises
\* ModuleNotFound carrying k, and a callById(id, m, args) on a list with no
\* entry of identity id raises ModuleIdNotFound carrying id; the step
\* invokes nothing, starts nothing, and leaves the list and the instances'
\* state unchanged.
C2_LookupMissRaisesAndInvokesNothing ==
    [][(stack = << >> /\ Misses(req')) =>
          /\ done'.error = (IF req'.op = "call"
                            THEN [kind |-> "ModuleNotFound", key |-> req'.key, id |-> NoNode]
                            ELSE [kind |-> "ModuleIdNotFound", key |-> "", id |-> req'.id])
          /\ done'.op = req'.op
          /\ done'.invoked = << >>
          /\ stack' = << >>
          /\ modules' = modules
          /\ state' = state]_vars

\* A lookup miss by identity 42 after some method has run and stored state.
C2_Witness ==
    /\ done.error.kind = "ModuleIdNotFound"
    /\ done.error.id = 42
    /\ \E i \in 1..Len(modules) : state[i].set

\* C3: a callById(id, m, args) on a list with an entry of identity id
\* returns normally having invoked nothing but the first such entry in
\* list order: m exactly once when that entry exposes a callable m (not at
\* all when it does not), whatever other entries share its type key or its
\* identity; identity 0 included.
C3_CallByIdInvokesFirstOnly ==
    /\ \A o \in Operations :
          o.op = "callById" => \A k \in 1..Len(o.invoked) :
                                   o.invoked[k].target = Least(WithId(o.id))
    /\ (done.op = "callById" /\ WithId(done.id) # {}) =>
          /\ done.error = NoError
          /\ Len(done.invoked) =
                 (IF Callable(Least(WithId(done.id)), done.method) THEN 1 ELSE 0)

\* A callById(0, ...) that invoked the first of two entries of identity 0
\* which also share their type key.
C3_Witness ==
    /\ done.op = "callById"
    /\ done.id = 0
    /\ Len(done.invoked) = 1
    /\ \E i \in WithId(0) :
          /\ i # Least(WithId(0))
          /\ modules[i].name = modules[Least(WithId(0))].name
          /\ Callable(i, done.method)

\* The targets among ts that expose a callable m, in the order of ts.
CallableAmong(ts, m) == SelectSeq(ts, LAMBDA t : Callable(t, m))

\* C4: a target that call or callById found and that has no member m, or
\* whose member m is not callable, is passed over without an error: the
\* operation goes on through its targets in list order, invoking exactly
\* those that expose a callable m, and returns normally.
C4_NonCallableSilentlySkipped ==
    /\ \A k \in 1..Len(stack) :
          InvokedOn(stack[k].invoked) =
              CallableAmong(SubSeq(stack[k].targets, 1, stack[k].pos - 1), stack[k].method)
    /\ (done.op # "none" /\ done.targets # << >>) =>
          /\ done.error = NoError
          /\ InvokedOn(done.invoked) = CallableAmong(done.targets, done.method)

\* A call whose first target had no callable m and whose later target was
\* invoked.
C4_Witness ==
    /\ done.op = "call"
    /\ Len(done.targets) >= 2
    /\ ~Callable(done.targets[1], done.method)
    /\ Len(done.invoked) >= 1

\* C5 as claimed: every method invoked through call or callById runs with
\* the instance that issued the operation as its own-instance context.
C5_ContextAlwaysCaller ==
    \A o \in Operations : \A k \in 1..Len(o.invoked) : o.invoked[k].ctx = o.caller

\* The context a member of instance t runs with when instance c invokes it.
ContextOf(c, t, m) == IF modules[t].members[m] = "bound" THEN t ELSE c

\* C5 as amended: every method invoked through call or callById is given
\* the issuing instance as its context; a member that is an ordinary
\* function runs with it, and what it stores through its context is stored
\* on the issuing instance, the target left unchanged; a member that is a
\* bound (or arrow) function keeps the context it is bound to, its own
\* instance, and stores there.
C5_ContextCallerUnlessBound ==
    /\ [](\A o \in Operations : \A k \in 1..Len(o.invoked) :
              o.invoked[k].ctx = ContextOf(o.caller, o.invoked[k].target, o.method))
    /\ [][state' # state =>
             /\ stack # << >>
             /\ LET f == Top(stack)
                    c == ContextOf(f.caller, f.targets[f.pos], f.method)
                IN  /\ state'[c] = [set |-> TRUE, last |-> f.args]
                    /\ \A i \in 1..Len(modules) : i # c => state'[i] = state[i]]_vars

\* An ordinary method of another instance has run: the issuing instance
\* holds what it stored, the target holds nothing.
C5_Witness ==
    /\ done.op = "call"
    /\ \E k \in 1..Len(done.invoked) :
          /\ done.invoked[k].target # done.caller
          /\ modules[done.invoked[k].target].members[done.method] = "fn"
          /\ state[done.caller].set
          /\ ~state[done.invoked[k].target].set


\* The entries of type key k, or the first entry of identity id, in list
\* order: the matching set of an operation, as it is when it starts.
RECURSIVE Ascending(_)
Ascending(S) == IF S = {} THEN << >> ELSE <<Least(S)>> \o Ascending(S \ {Least(S)})
MatchingSet(o) ==
    IF o.op = "call" THEN Ascending(Named(o.key))
    ELSE IF WithId(o.id) = {} THEN << >> ELSE <<Least(WithId(o.id))>>

\* C10 as claimed: a call in which an invoked method issued a call or
\* callById of its own has, when it ends, invoked m exactly once on each
\* instance of the matching set computed when it started, in list order.
C10_OuterCallNeverSkips ==
    (done.op = "call" /\ done.nested) => InvokedOn(done.invoked) = MatchingSet(done)

\* C10 as amended: an operation issued by an invoked method runs to its end
\* before the operation that invoked the method goes on, and leaves that
\* operation's targets and position alone: every operation in progress has
\* invoked, once each and in list order with its own arguments, the first
\* entries of the matching set computed when it started, up to the one
\* whose method is running. When the nested operation returns, or raises a
\* lookup miss that the method handles, the outer operation goes on and
\* returns having invoked the whole matching set. When the nested operation
\* raises a lookup miss that the method does not handle, the error ends the
\* method and the outer operation with it: the entries after the one whose
\* method was running are not invoked, and the outer operation raises the
\* nested operation's error.
C10_ReentryKeepsOrderUnlessNestedRaises ==
    /\ \A k \in 1..Len(stack) :
          /\ stack[k].targets = MatchingSet(stack[k])
          /\ stack[k].pos \in 1..(Len(stack[k].targets) + 1)
          /\ InvokedOn(stack[k].invoked) =
                 SubSeq(stack[k].targets, 1,
                        IF k < Len(stack) THEN stack[k].pos ELSE stack[k].pos - 1)
          /\ k < Len(stack) => stack[k].nested
          /\ \A j \in 1..Len(stack[k].invoked) :
                stack[k].invoked[j].recv = stack[k].args
    /\ done.op # "none" =>
          /\ done.targets = MatchingSet(done)
          /\ \A j \in 1..Len(done.invoked) : done.invoked[j].recv = done.args
          /\ done.error = NoError => InvokedOn(done.invoked) = done.targets
          /\ (done.error # NoError /\ done.targets = << >>) =>
                /\ done.invoked = << >>
                /\ done.error.kind =
                       (IF done.op = "call" THEN "ModuleNotFound" ELSE "ModuleIdNotFound")
          /\ (done.error # NoError /\ done.targets # << >>) =>
                /\ done.nested
                /\ done.error.kind \in {"ModuleNotFound", "ModuleIdNotFound"}
                /\ done.pos \in 1..Len(done.targets)
                /\ InvokedOn(done.invoked) = SubSeq(done.targets, 1, done.pos)

\* An outer call over at least two targets returned after a method it
\* invoked had issued an operation of its own.
C10_Witness ==
    /\ done.op = "call"
    /\ done.depth = 1
    /\ done.nested
    /\ done.error = NoError
    /\ Len(done.invoked) >= 2


\* The element an operation reads or writes: the target if one is given,
\* the instance's own element otherwise (NoNode when it has none).
Resolved(self, target) == IF target # NoNode THEN target ELSE modules[self].element

\* C6: for every instance, data name n and target, getData(n, target)
\* returns the value that the latest setData with name n put on the
\* resolved element (the target if given, the instance's own element
\* otherwise), whatever other operations ran since; it returns the
\* element's markup value, absent when the attribute was never there,
\* while no setData has put one; with no element available getData
\* returns absent, and setData changes nothing: the attributes of the tree
\* are at all times the markup overwritten by the setData calls made on
\* resolved elements.
C6_DataRoundTrip ==
    /\ \A self \in 1..Len(modules), n \in DataNames, target \in {NoNode, 2, 3, 4} :
          getData(self, n, target) =
              (IF Resolved(self, target) = NoNode THEN NULL
               ELSE written[Resolved(self, target)][n])
    /\ \A node \in Nodes :
          /\ \A n \in DataNames : attrs[node]["data-" \o n] = written[node][n]
          /\ attrs[node]["data-b"] = NULL
    /\ ret.op = "getData" =>
          ret.str = (IF Resolved(ret.self, ret.node) = NoNode THEN NULL
                     ELSE written[Resolved(ret.self, ret.node)][ret.name])

\* getData with a target returned a value that only a setData can have put
\* there (node 4 carries no attribute in the markup), after an operation by
\* an instance that has no element.
C6_Witness ==
    /\ ret.op = "getData"
    /\ ret.node = 4
    /\ ret.str \in Values
    /\ written[4]["x"] # NULL
    /\ written[2]["a"] = "item"

\* The strict ancestors of a node, nearest first.
RECURSIVE AncestorsOf(_)
AncestorsOf(n) ==
    IF n = Document \/ TreeParent[n] = NoNode THEN << >>
    ELSE <<TreeParent[n]>> \o AncestorsOf(TreeParent[n])

\* The strict ancestors of `target` other than the document root that
\* carry data-k="query", nearest first.
Carrying(k, query, target) ==
    SelectSeq(AncestorsOf(target),
              LAMBDA n : n # Document /\ attrs[n]["data-" \o k] = query)

\* C7 as claimed: parent(query, target) on an instance of type key k
\* returns the nearest strict ancestor of target, below the document root,
\* that carries data-k with value query, and returns absent when there is
\* none, a detached target included.
C7_ParentNearestAncestor ==
    ret.op = "parent" =>
        LET found == Carrying(modules[ret.self].name, ret.value, ret.node)
        IN  ret.res = IF found = << >> THEN Absent ELSE One(found[1])

\* The nodes of the tree whose strict ancestors are all elements or the
\* document root.
AmongElements(target) ==
    \A k \in 1..Len(AncestorsOf(target)) :
        NodeKind(AncestorsOf(target)[k]) \in {"element", "document"}

\* What parent() does where the claim holds: for a target whose ancestors
\* are all elements (up to the document root, or up to a detached root
\* element) it returns the nearest ancestor carrying the marker, or absent.
ParentAmongElements ==
    (ret.op = "parent" /\ AmongElements(ret.node)) =>
        LET found == Carrying(modules[ret.self].name, ret.value, ret.node)
        IN  ret.res = IF found = << >> THEN Absent ELSE One(found[1])

\* The descendants of a node.
Below(root) ==
    {n \in Nodes : \E k \in 1..Len(AncestorsOf(n)) : AncestorsOf(n)[k] = root}

\* The elements below `root` that carry data-k, with value `selectors` when
\* a selector fragment is given.
Scoped(k, selectors, root) ==
    {n \in Below(root) :
        /\ attrs[n]["data-" \o k] # NULL
        /\ selectors = NULL \/ attrs[n]["data-" \o k] = selectors}

\* C8: q(selectors, context) searches below the context when one is given
\* and below the instance's own element otherwise; with neither it returns
\* absent; otherwise zero matching descendants give absent, exactly one
\* gives that element itself, two or more give the list of all of them in
\* document order.
C8_QueryShapeByCount ==
    ret.op = "q" =>
        LET root == Resolved(ret.self, ret.node)
            found == Scoped(modules[ret.self].name, ret.value, root)
        IN  /\ ret.res.raised = "none"
            /\ root = NoNode => ret.res = Absent
            /\ (root # NoNode /\ Cardinality(found) = 0) => ret.res = Absent
            /\ (root # NoNode /\ Cardinality(found) = 1) =>
                  /\ ret.res.kind = "element"
                  /\ ret.res.elem \in found
                  /\ ret.res.list = << >>
            /\ (root # NoNode /\ Cardinality(found) >= 2) =>
                  /\ ret.res.kind = "list"
                  /\ ret.res.elem = NoNode
                  /\ Range(ret.res.list) = found
                  /\ InListOrder(ret.res.list)

\* q on the instance's own element (no context) found exactly one element,
\* and it is one that a setData made match.
C8_Witness ==
    /\ ret.op = "q"
    /\ ret.node = NoNode
    /\ ret.res.kind = "element"
    /\ ret.res.elem = 4

\* C9 as claimed: no operation of the base class raises anything but the
\* lookup-miss errors of call and callById; init, destroy, bind, q, parent,
\* getData and setData never raise.
C9_OnlyLookupErrors ==
    /\ ret.res.raised = "none"
    /\ done.error.kind \in {"none", "ModuleNotFound", "ModuleIdNotFound"}

====
